---- MODULE Spec2Model ----
(***************************************************************************)
(* A model of go/libkb/pgp_key.go: the PGPKeyBundle, its secret-key        *)
(* unlock loop, its capability surface and its armor ingestion.            *)
(***************************************************************************)
EXTENDS Integers, Sequences, FiniteSets, TLC

(***************************************************************************)
(* Bounds of the model.                                                    *)
(***************************************************************************)
\* the most subkeys a modelled bundle carries
MaxSubkeys == 2
\* the number of distinct passphrases keys are encrypted under
NumPw == 2
\* the most entities the body of an armored key ring decodes to
MaxEntities == 3
\* the most bytes of a signed payload
MaxMsgLen == 1

\* the retry budget Unlock hands to NewKeyUnlocker
UnlockTries == 5
\* the length of a PGPFingerprint in bytes
PGPFingerprintLen == 20

Passphrases == 1..NumPw
\* what the prompt may hand back: a passphrase of some key, or 0, a passphrase
\* that decrypts no key
PromptAnswers == 0..NumPw

(***************************************************************************)
(* packet.PrivateKey, as far as this file reads it.  nil is the absent     *)
(* structure (a public key), Encrypted the field of that name, PrivateKey  *)
(* whether the inner private key value is set (it is unset on an encrypted *)
(* key and on a stub), pass the passphrase the key material is encrypted   *)
(* under (0 when it is not encrypted).                                     *)
(***************************************************************************)
NilKey == [nil |-> TRUE, Encrypted |-> FALSE, PrivateKey |-> FALSE, pass |-> 0]
StubKey == [nil |-> FALSE, Encrypted |-> FALSE, PrivateKey |-> FALSE, pass |-> 0]
ClearKey == [nil |-> FALSE, Encrypted |-> FALSE, PrivateKey |-> TRUE, pass |-> 0]
EncKey(p) == [nil |-> FALSE, Encrypted |-> TRUE, PrivateKey |-> FALSE, pass |-> p]

PrivateKeys == {NilKey, StubKey, ClearKey} \cup {EncKey(p) : p \in Passphrases}


(***************************************************************************)
(* Errors.                                                                 *)
(***************************************************************************)
ErrNil == "nil"
\* the library's error whose text ends in "private key checksum failure"
ErrChecksum == "private key checksum failure"
\* any other error of the library's Decrypt
ErrOther == "decrypt error"
PassphraseError == "PassphraseError"
ErrCanceled == "input canceled"
ErrTooManyFailures == "Too many failures; giving up"
\* a nil pointer dereference: the call does not return
Panic == "panic"

(***************************************************************************)
(* The state.                                                              *)
(*   k        the PGPKeyBundle the operations are called on                *)
(*   pc       where the running Unlock is: "idle" before the call, "prompt"*)
(*            and "unlock" inside KeyUnlocker.Run, "done" after it has     *)
(*            returned, "panic" after a nil dereference                    *)
(*   i        the loop counter of KeyUnlocker.Run                          *)
(*   pw       the passphrase the prompt returned last                      *)
(*   err      the error Unlock returned                                    *)
(*   unlocked the GenericKey the unlocker handed back last ("nil" or the   *)
(*            reference it returned)                                       *)
(*   hist     what an observer of the Unlock run has seen                  *)
(*   out      the last call of another operation and its result            *)
(*   input    the armored text handed to the ingestion calls               *)
(***************************************************************************)
VARIABLES k, pc, i, pw, err, unlocked, hist, out, input

vars == <<k, pc, i, pw, err, unlocked, hist, out, input>>

(***************************************************************************)
(* Secret-key unlock.                                                      *)
(***************************************************************************)
\* packet.PrivateKey.Decrypt of the OpenPGP library: a key that is not
\* encrypted is left alone; a fault of the library (unsupported cipher,
\* corrupt packet) is some other error; a passphrase that is not the key's
\* fails the checksum; the key's passphrase decrypts it in place.
Decrypt(key, p, fault) ==
    IF ~key.Encrypted THEN [key |-> key, err |-> ErrNil]
    ELSE IF fault THEN [key |-> key, err |-> ErrOther]
    ELSE IF p # key.pass THEN [key |-> key, err |-> ErrChecksum]
    ELSE [key |-> [key EXCEPT !.Encrypted = FALSE, !.PrivateKey = TRUE, !.pass = 0],
          err |-> ErrNil]

\* unlockPrivateKey without the rewrite of the checksum failure
unlockPrivateKey_Raw(key, p, fault) ==
    IF key.nil THEN [key |-> key, err |-> Panic]
    ELSE IF ~key.Encrypted THEN [key |-> key, err |-> ErrNil]
    ELSE Decrypt(key, p, fault)

\* unlockPrivateKey: reading k.Encrypted of a nil *packet.PrivateKey panics
unlockPrivateKey(key, p, fault) ==
    IF key.nil THEN [key |-> key, err |-> Panic]
    ELSE IF ~key.Encrypted THEN [key |-> key, err |-> ErrNil]
    ELSE LET r == Decrypt(key, p, fault)
         IN  [key |-> r.key,
              err |-> IF r.err # ErrNil /\ r.err = ErrChecksum
                      THEN PassphraseError ELSE r.err]

\* isAnyKeyEncrypted, the loop over k.Subkeys from index j on
RECURSIVE anySubkeyEncrypted(_, _)
anySubkeyEncrypted(subkeys, j) ==
    IF j > Len(subkeys) THEN [ret |-> FALSE, panic |-> FALSE]
    ELSE IF subkeys[j].PrivateKey.nil THEN [ret |-> FALSE, panic |-> TRUE]
    ELSE IF subkeys[j].PrivateKey.Encrypted THEN [ret |-> TRUE, panic |-> FALSE]
    ELSE anySubkeyEncrypted(subkeys, j + 1)

isAnyKeyEncrypted(b) ==
    IF b.PrivateKey.nil THEN [ret |-> FALSE, panic |-> TRUE]
    ELSE IF b.PrivateKey.Encrypted THEN [ret |-> TRUE, panic |-> FALSE]
    ELSE anySubkeyEncrypted(b.Subkeys, 1)

\* unlockAllPrivateKeys, the loop over k.Subkeys from index j on.  faultAt is
\* the key (0 the primary, j the j-th subkey) the library's fault hits, -1
\* for none; tried lists the keys unlockPrivateKey was called on.
RECURSIVE unlockSubkeys(_, _, _, _)
unlockSubkeys(subkeys, j, p, faultAt) ==
    IF j > Len(subkeys) THEN [Subkeys |-> subkeys, err |-> ErrNil, tried |-> <<>>]
    ELSE LET r == unlockPrivateKey(subkeys[j].PrivateKey, p, faultAt = j)
             now == [subkeys EXCEPT ![j].PrivateKey = r.key]
         IN  IF r.err # ErrNil
             THEN [Subkeys |-> now, err |-> r.err, tried |-> <<j>>]
             ELSE LET rest == unlockSubkeys(now, j + 1, p, faultAt)
                  IN  [rest EXCEPT !.tried = <<j>> \o @]

\* unlockAllPrivateKeys that stops after the primary key
unlockAllPrivateKeys_PrimaryOnly(b, p, faultAt) ==
    LET r == unlockPrivateKey(b.PrivateKey, p, faultAt = 0)
    IN  [k |-> [b EXCEPT !.PrivateKey = r.key], err |-> r.err, tried |-> <<0>>]

\* unlockAllPrivateKeys that leaves the bundle as it was when a key fails
unlockAllPrivateKeys_Transactional(b, p, faultAt) ==
    LET r == unlockPrivateKey(b.PrivateKey, p, faultAt = 0)
    IN  IF r.err # ErrNil
        THEN [k |-> b, err |-> r.err, tried |-> <<0>>]
        ELSE LET s == unlockSubkeys(b.Subkeys, 1, p, faultAt)
             IN  [k |-> IF s.err # ErrNil THEN b
                        ELSE [b EXCEPT !.PrivateKey = r.key, !.Subkeys = s.Subkeys],
                  err |-> s.err, tried |-> <<0>> \o s.tried]

unlockAllPrivateKeys(b, p, faultAt) ==
    LET r == unlockPrivateKey(b.PrivateKey, p, faultAt = 0)
    IN  IF r.err # ErrNil
        THEN [k |-> [b EXCEPT !.PrivateKey = r.key], err |-> r.err, tried |-> <<0>>]
        ELSE LET s == unlockSubkeys(b.Subkeys, 1, p, faultAt)
             IN  [k |-> [b EXCEPT !.PrivateKey = r.key, !.Subkeys = s.Subkeys],
                  err |-> s.err, tried |-> <<0>> \o s.tried]

\* the unlocker closure of Unlock: the bundle itself on success
unlocker(b, p, faultAt) ==
    LET r == unlockAllPrivateKeys(b, p, faultAt)
    IN  [k |-> r.k, err |-> r.err, tried |-> r.tried,
         ret |-> IF r.err # ErrNil THEN "nil" ELSE "k"]

\* the private key of key idx of b: 0 the primary, j the j-th subkey
KeyAt(b, idx) == IF idx = 0 THEN b.PrivateKey ELSE b.Subkeys[idx].PrivateKey

\* whether some private key of b is encrypted (an absent one is not)
AnyEncrypted(b) == \E idx \in 0..Len(b.Subkeys) : KeyAt(b, idx).Encrypted

\* whether every key of b has a private key structure
AllPresent(b) == \A idx \in 0..Len(b.Subkeys) : ~KeyAt(b, idx).nil

\* whether passphrase p is the passphrase of every key of b still encrypted
DecryptsAll(b, p) ==
    \A idx \in 0..Len(b.Subkeys) : KeyAt(b, idx).Encrypted => KeyAt(b, idx).pass = p

\* What an observer of one attempt sees of the library: the first key, in
\* the order primary, subkeys, that stops the attempt (-1 for none) and
\* why: its private key is absent, or the library's Decrypt fails on it.
FirstBad(b, p, faultAt) ==
    LET bad(idx) == \/ KeyAt(b, idx).nil
                    \/ /\ KeyAt(b, idx).Encrypted
                       /\ (faultAt = idx \/ KeyAt(b, idx).pass # p)
        bads == {idx \in 0..Len(b.Subkeys) : bad(idx)}
        at == IF bads = {} THEN -1
              ELSE CHOOSE idx \in bads : \A other \in bads : idx <= other
    IN  [at |-> at,
         cause |-> IF at = -1 THEN ErrNil
                   ELSE IF KeyAt(b, at).nil THEN Panic
                   ELSE IF faultAt = at THEN ErrOther
                   ELSE ErrChecksum]

\* hist: prompts counts the prompts, wrongs the attempts that ended in
\* PassphraseError; k0 is the bundle Unlock was called on; of the last
\* attempt, tried lists the keys unlockPrivateKey was called on, correct
\* says whether its passphrase was that of every key still encrypted, last
\* is the error the unlocker returned, at and cause are FirstBad's.
NoHist == [prompts |-> 0, wrongs |-> 0, tried |-> <<>>, correct |-> FALSE,
           last |-> ErrNil, at |-> -1, cause |-> ErrNil, k0 |-> [isNil |-> TRUE]]
NoOut == [op |-> "none"]

\* Unlock, up to the call of KeyUnlocker.Run
UnlockCall ==
    /\ pc = "idle"
    /\ LET any == isAnyKeyEncrypted(k)
       IN  /\ pc' = IF any.panic THEN "panic" ELSE IF any.ret THEN "prompt" ELSE "done"
           /\ err' = IF any.panic THEN Panic ELSE ErrNil
    /\ i' = 0
    /\ hist' = [hist EXCEPT !.k0 = k]
    /\ out' = NoOut
    /\ UNCHANGED <<k, pw, unlocked, input>>

\* KeyUnlocker.Run: the prompt of one iteration; a declined prompt (-1) ends
\* the run with the prompt's error
RunPrompt ==
    /\ pc = "prompt"
    /\ \E answer \in PromptAnswers \cup {-1} :
          /\ hist' = [hist EXCEPT !.prompts = @ + 1]
          /\ IF answer = -1
             THEN pc' = "done" /\ err' = ErrCanceled /\ pw' = pw
             ELSE pc' = "unlock" /\ err' = err /\ pw' = answer
    /\ UNCHANGED <<k, i, unlocked, out, input>>

\* KeyUnlocker.Run: the unlocker of one iteration and the loop's decision:
\* success ends the run, PassphraseError goes round again while tries are
\* left, any other error ends the run
RunUnlock ==
    /\ pc = "unlock"
    /\ \E faultAt \in -1..Len(k.Subkeys) :
          LET r == unlocker(k, pw, faultAt)
              seen == FirstBad(k, pw, faultAt)
          IN  /\ k' = r.k
              /\ unlocked' = r.ret
              /\ hist' = [hist EXCEPT !.tried = r.tried,
                                      !.correct = DecryptsAll(k, pw),
                                      !.last = r.err,
                                      !.at = seen.at,
                                      !.cause = seen.cause,
                                      !.wrongs = IF r.err = PassphraseError
                                                 THEN @ + 1 ELSE @]
              /\ IF r.err = Panic
                 THEN pc' = "panic" /\ err' = Panic /\ i' = i
                 ELSE IF r.err = ErrNil
                 THEN pc' = "done" /\ err' = ErrNil /\ i' = i
                 ELSE IF r.err = PassphraseError
                 THEN /\ i' = i + 1
                      /\ pc' = IF i + 1 < UnlockTries THEN "prompt" ELSE "done"
                      /\ err' = IF i + 1 < UnlockTries THEN err ELSE ErrTooManyFailures
                 ELSE pc' = "done" /\ err' = r.err /\ i' = i
    /\ UNCHANGED <<pw, out, input>>

(***************************************************************************)
(* Armored text.  A text is a sequence of tokens: a token stands for one   *)
(* character (" ", "\t", "\r", "\n", the junk character "x"), for a fixed  *)
(* run of characters ("-----", "BEGIN PGP ", ...), or for the base64 body  *)
(* of a block, which carries the list of entities it encodes (el) and      *)
(* which of the possible serializations of them it is (v).                 *)
(***************************************************************************)
Tok(c) == [c |-> c, el |-> <<>>, v |-> 0]
Data(el, v) == [c |-> "DATA", el |-> el, v |-> v]

D5 == Tok("-----")
BeginPGP == Tok("BEGIN PGP ")
EndPGP == Tok("END PGP ")
PublicBlock == Tok("PUBLIC KEY BLOCK")
PrivateBlock == Tok("PRIVATE KEY BLOCK")
NL == Tok("\n")
SP == Tok(" ")
TAB == Tok("\t")
CR == Tok("\r")
Junk == Tok("x")

NoText == <<>>

\* the characters of the class [ \t\r]
IsBlank(t) == t.c \in {" ", "\t", "\r"}
\* the characters strings.TrimSpace trims
IsSpace(t) == IsBlank(t) \/ t.c = "\n"

RECURSIVE TrimLeft(_)
TrimLeft(s) == IF s # <<>> /\ IsSpace(Head(s)) THEN TrimLeft(Tail(s)) ELSE s

RECURSIVE TrimRight(_)
TrimRight(s) ==
    IF s # <<>> /\ IsSpace(s[Len(s)]) THEN TrimRight(SubSeq(s, 1, Len(s) - 1)) ELSE s

\* strings.TrimSpace
TrimSpace(s) == TrimRight(TrimLeft(s))

\* the end of the run of [ \t\r] that starts at position p of s
RECURSIVE BlankRunEnd(_, _)
BlankRunEnd(s, p) ==
    IF p <= Len(s) /\ IsBlank(s[p]) THEN BlankRunEnd(s, p + 1) ELSE p

\* cleanPGPInputRxx.Split(s, -1) joined by "\n": every leftmost match of
\* [ \t\r]*\n[ \t\r]* from position p on becomes one "\n"
RECURSIVE SplitJoin(_, _)
SplitJoin(s, p) ==
    IF p > Len(s) THEN <<>>
    ELSE LET q == BlankRunEnd(s, p)
         IN  IF q <= Len(s) /\ s[q].c = "\n"
             THEN <<NL>> \o SplitJoin(s, BlankRunEnd(s, q + 1))
             ELSE <<s[p]>> \o SplitJoin(s, p + 1)

cleanPGPInput(s) == SplitJoin(TrimSpace(s), 1)

\* strings.Index(a, "\n"), from position p on; 0 when there is none
RECURSIVE IndexNL(_, _)
IndexNL(a, p) ==
    IF p > Len(a) THEN 0 ELSE IF a[p].c = "\n" THEN p ELSE IndexNL(a, p + 1)

\* bug8612PrepassRxx on line0: the end of the header group, 0 for no match.
\* The line must start -----BEGIN PGP ; the lazy (.*?) stops at the first
\* ----- from position m on that still leaves junk (.+?) after it.
RECURSIVE HeaderEnd(_, _)
HeaderEnd(line0, m) ==
    IF m >= Len(line0) THEN 0
    ELSE IF line0[m] = D5 THEN m
    ELSE HeaderEnd(line0, m + 1)

bug8612PrepassRxx(line0) ==
    IF Len(line0) >= 3 /\ line0[1] = D5 /\ line0[2] = BeginPGP
    THEN HeaderEnd(line0, 3) ELSE 0

\* a pre-pass that repairs nothing
bug8612Prepass_Off(a) == a

bug8612Prepass(a) ==
    LET idx == IndexNL(a, 1)
    IN  IF idx = 0 THEN a
        ELSE LET line0 == SubSeq(a, 1, idx - 1)
                 rest == SubSeq(a, idx, Len(a))
                 match == bug8612PrepassRxx(line0)
             IN  IF match = 0 THEN a
                 ELSE SubSeq(line0, 1, match) \o rest

(***************************************************************************)
(* Entities and bundles.  An openpgp.Entity is a record of the fields this *)
(* file reads: PrimaryKey (the primary key, named by its fingerprint),     *)
(* PrivateKey, Subkeys (each with PublicKey, PrivateKey, Sig and           *)
(* Revocation), Identities, Revocations and BadSubkeys.  A PGPKeyBundle    *)
(* embeds the entity and adds GPGFallbackKey (whether it is set),          *)
(* ArmoredPublicKey and Generated.                                         *)
(***************************************************************************)
SigTypeSubkeyBinding == "SubkeyBinding"
SigTypeOther == "Other"

Subkey(fp, priv) ==
    [PublicKey |-> fp, PrivateKey |-> priv, Sig |-> SigTypeSubkeyBinding,
     Revocation |-> FALSE]

Entity(fp, priv, subkeys) ==
    [PrimaryKey |-> fp, PrivateKey |-> priv, Subkeys |-> subkeys,
     Identities |-> {"uid"}, Revocations |-> {}, BadSubkeys |-> 0]

\* the bundle no call returned (a nil *PGPKeyBundle)
NilBundle == [isNil |-> TRUE]

\* NewPGPKeyBundle, and the literal &PGPKeyBundle{Entity: e}
NewPGPKeyBundle(e) ==
    e @@ [isNil |-> FALSE, GPGFallbackKey |-> FALSE, ArmoredPublicKey |-> NoText,
          Generated |-> FALSE]

NewGeneratedPGPKeyBundle(e) == [NewPGPKeyBundle(e) EXCEPT !.Generated = TRUE]

\* the *openpgp.Entity a bundle embeds
EntityOf(b) ==
    [PrimaryKey |-> b.PrimaryKey, PrivateKey |-> b.PrivateKey, Subkeys |-> b.Subkeys,
     Identities |-> b.Identities, Revocations |-> b.Revocations,
     BadSubkeys |-> b.BadSubkeys]

\* what the public serialization of an entity holds, and so what decoding
\* it gives back: the entity without its private keys
PublicOf(e) ==
    [e EXCEPT !.PrivateKey = NilKey,
              !.Subkeys = [j \in 1..Len(e.Subkeys) |->
                              [e.Subkeys[j] EXCEPT !.PrivateKey = NilKey]],
              !.BadSubkeys = 0]

\* a public key block around the body d
PublicArmor(d) ==
    <<D5, BeginPGP, PublicBlock, D5, NL, NL, d, NL, D5, EndPGP, PublicBlock, D5>>

\* the number of texts Entity.Serialize may write for one entity (it walks
\* maps, whose iteration order is not fixed)
NumSerializations == 2

\* EncodeToStream(wc, false) when it succeeds: armor.Encode around
\* Entity.Serialize, in the v-th of its orders
EncodeToStream(b, v) == PublicArmor(Data(<<PublicOf(EntityOf(b))>>, v))

\* Encode that serializes whether or not ArmoredPublicKey is set
Encode_AlwaysSerialize(b, v) ==
    IF v = 0
    THEN [k |-> b, ret |-> NoText, err |-> "encode error", serialized |-> TRUE]
    ELSE [k |-> [b EXCEPT !.ArmoredPublicKey = EncodeToStream(b, v)],
          ret |-> EncodeToStream(b, v), err |-> ErrNil, serialized |-> TRUE]

\* Encode: v is what EncodeToStream does when it is called, 0 for an error
Encode(b, v) ==
    IF b.ArmoredPublicKey # NoText
    THEN [k |-> b, ret |-> b.ArmoredPublicKey, err |-> ErrNil, serialized |-> FALSE]
    ELSE IF v = 0
    THEN [k |-> b, ret |-> NoText, err |-> "encode error", serialized |-> TRUE]
    ELSE [k |-> [b EXCEPT !.ArmoredPublicKey = EncodeToStream(b, v)],
          ret |-> EncodeToStream(b, v), err |-> ErrNil, serialized |-> TRUE]

\* GetBinaryKID: version, algorithm, digest of the serialized primary public
\* key, suffix; the primary key is all of the bundle it reads
GetBinaryKID(b) == <<"KeybaseKIDV1", "algo", <<"sha256", b.PrimaryKey>>, "IDSuffixKID">>

GetKID(b) == GetBinaryKID(b)

\* SamePrimaryAs
SamePrimaryAs(b, b2) == b.PrimaryKey = b2.PrimaryKey

\* HasSecretKey
HasSecretKey(b) == ~b.PrivateKey.nil

\* FindPGPPrivateKey that looks at the primary key only
FindPGPPrivateKey_PrimaryOnly(b) ==
    IF b.PrivateKey.nil THEN [ret |-> FALSE, panic |-> TRUE]
    ELSE [ret |-> b.PrivateKey.PrivateKey, panic |-> FALSE]

\* FindPGPPrivateKey; reading k.PrivateKey.PrivateKey of a nil k.PrivateKey
\* panics
FindPGPPrivateKey(b) ==
    IF b.PrivateKey.nil THEN [ret |-> FALSE, panic |-> TRUE]
    ELSE [ret |-> \/ b.PrivateKey.PrivateKey
                  \/ \E j \in 1..Len(b.Subkeys) :
                        /\ ~b.Subkeys[j].PrivateKey.nil
                        /\ b.Subkeys[j].PrivateKey.PrivateKey,
          panic |-> FALSE]

\* CheckSecretKey
CheckSecretKey(b) ==
    IF b.PrivateKey.nil THEN "NoSecretKeyError"
    ELSE IF b.PrivateKey.Encrypted THEN "BadKeyError: PGP key material should be unencrypted"
    ELSE IF ~FindPGPPrivateKey(b).ret /\ ~b.GPGFallbackKey
    THEN "BadKeyError: no private key material or GPGKey"
    ELSE ErrNil

\* CanSign that does not look at Encrypted
CanSign_AnyPrivate(b) == ~b.PrivateKey.nil \/ b.GPGFallbackKey

\* CanSign
CanSign(b) == (~b.PrivateKey.nil /\ ~b.PrivateKey.Encrypted) \/ b.GPGFallbackKey

(***************************************************************************)
(* Signature verification.  A signature string is a record: whether        *)
(* PGPOpenSig parses it, whether the signature in it is intact, the        *)
(* primary key of the signer, the payload it carries (LiteralData) and its *)
(* hash.  A payload is a sequence of bytes, each 1 or 2.                   *)
(***************************************************************************)
Payloads == UNION {[1..n -> {1, 2}] : n \in 0..MaxMsgLen}

\* a string that does not parse holds no signature to be intact
SigStrings ==
    {sig \in [parses : BOOLEAN, intact : BOOLEAN, signer : {"A", "B"},
              LiteralData : Payloads, Hash : {"SHA1", "SHA256"}] :
        sig.intact => sig.parses}

\* SigVerifyResult{}
NoSigVerifyResult == [SigID |-> <<>>, WeakDigest |-> "nil"]

\* PGPOpenSig: the error of parsing the signature string
PGPOpenSig(sig) == IF sig.parses THEN ErrNil ELSE "PGPOpenSig error"

\* ParsedSig.Verify: the signature is intact and was made by the key of the
\* bundle
Verify(sig, b) ==
    IF sig.intact /\ sig.signer = b.PrimaryKey THEN ErrNil ELSE "Verify error"

\* ParsedSig.ID
ID(sig) == <<"SigID", sig.signer, sig.LiteralData, sig.Hash, sig.intact>>

\* FastByteArrayEq
FastByteArrayEq(a, b) == a = b

\* VerifyStringAndExtract
VerifyStringAndExtract(b, sig) ==
    IF PGPOpenSig(sig) # ErrNil
    THEN [msg |-> <<>>, res |-> NoSigVerifyResult, err |-> PGPOpenSig(sig)]
    ELSE IF Verify(sig, b) # ErrNil
    THEN [msg |-> <<>>, res |-> NoSigVerifyResult, err |-> Verify(sig, b)]
    ELSE [msg |-> sig.LiteralData,
          res |-> [SigID |-> ID(sig),
                   WeakDigest |-> IF sig.Hash = "SHA1" THEN "SHA1" ELSE "nil"],
          err |-> ErrNil]

\* VerifyString that does not compare the payload
VerifyString_AnyPayload(b, sig, msg) ==
    LET r == VerifyStringAndExtract(b, sig)
    IN  IF r.err # ErrNil THEN [res |-> NoSigVerifyResult, err |-> r.err]
        ELSE [res |-> r.res, err |-> ErrNil]

\* VerifyString
VerifyString(b, sig, msg) ==
    LET r == VerifyStringAndExtract(b, sig)
    IN  IF r.err # ErrNil THEN [res |-> NoSigVerifyResult, err |-> r.err]
        ELSE IF ~FastByteArrayEq(r.msg, msg)
        THEN [res |-> NoSigVerifyResult, err |-> "BadSigError: wrong payload"]
        ELSE [res |-> r.res, err |-> ErrNil]

(***************************************************************************)
(* Fingerprints.  A PGPFingerprint is a sequence of PGPFingerprintLen      *)
(* bytes, a string a sequence of characters.                               *)
(***************************************************************************)
LowerHex == <<"0", "1", "2", "3", "4", "5", "6", "7", "8", "9",
              "a", "b", "c", "d", "e", "f">>
UpperHex == <<"0", "1", "2", "3", "4", "5", "6", "7", "8", "9",
              "A", "B", "C", "D", "E", "F">>

\* hex.EncodeToString: two lower case digits for every byte
RECURSIVE EncodeToString(_)
EncodeToString(bytes) ==
    IF bytes = <<>> THEN <<>>
    ELSE <<LowerHex[(Head(bytes) \div 16) + 1], LowerHex[(Head(bytes) % 16) + 1]>>
         \o EncodeToString(Tail(bytes))

\* strings.ToUpper
ToUpper(str) ==
    [n \in 1..Len(str) |->
        IF \E d \in 1..16 : LowerHex[d] = str[n]
        THEN UpperHex[CHOOSE d \in 1..16 : LowerHex[d] = str[n]]
        ELSE str[n]]

\* the value of a hex digit of either case, -1 for another character
FromHexChar(c) ==
    IF \E d \in 1..16 : LowerHex[d] = c THEN (CHOOSE d \in 1..16 : LowerHex[d] = c) - 1
    ELSE IF \E d \in 1..16 : UpperHex[d] = c
    THEN (CHOOSE d \in 1..16 : UpperHex[d] = c) - 1
    ELSE -1

\* errors of this path: <<>> is no error
HexWrongLengthError(n) == <<"HexWrongLengthError", n>>
InvalidByteError == <<"encoding/hex: invalid byte">>

\* DecodeHexFixed into a buffer of n bytes: the source must have two digits
\* for every byte of the buffer
DecodeHexFixed(n, src) ==
    IF Len(src) # 2 * n THEN [dst |-> <<>>, err |-> HexWrongLengthError(Len(src))]
    ELSE IF \E m \in 1..Len(src) : FromHexChar(src[m]) = -1
    THEN [dst |-> <<>>, err |-> InvalidByteError]
    ELSE [dst |-> [m \in 1..n |-> FromHexChar(src[2 * m - 1]) * 16
                                   + FromHexChar(src[2 * m])],
          err |-> <<>>]

\* PGPFingerprintFromHex that hands back its buffer whatever the length
PGPFingerprintFromHex_AnyLength(str) ==
    LET r == DecodeHexFixed(PGPFingerprintLen, str)
    IN  IF r.err = <<>> THEN [fp |-> r.dst, err |-> <<>>]
        ELSE IF r.err[1] = "HexWrongLengthError"
        THEN [fp |-> [m \in 1..PGPFingerprintLen |-> 0], err |-> <<>>]
        ELSE [fp |-> <<>>, err |-> r.err]

\* PGPFingerprintFromHex; fp <<>> is the nil pointer
PGPFingerprintFromHex(str) ==
    LET r == DecodeHexFixed(PGPFingerprintLen, str)
    IN  IF r.err = <<>> THEN [fp |-> r.dst, err |-> <<>>]
        ELSE IF r.err[1] = "HexWrongLengthError"
        THEN [fp |-> <<>>, err |-> <<"Bad fingerprint; wrong length", Len(str)>>]
        ELSE [fp |-> <<>>, err |-> r.err]

\* PGPFingerprint.String
String(fp) == EncodeToString(fp)

\* the loop of ToQuads over x from index n on (n is the code's i + 1)
RECURSIVE ToQuadsFrom(_, _, _, _)
ToQuadsFrom(x, n, ret, totlen) ==
    IF n > Len(x) THEN ret
    ELSE LET put == Append(ret, x[n])
         IN  ToQuadsFrom(x, n + 1,
                         IF (n - 1) % 4 = 3 /\ Len(put) < totlen
                         THEN Append(put, " ") ELSE put,
                         totlen)

\* PGPFingerprint.ToQuads
ToQuads(fp) ==
    LET x == ToUpper(String(fp))
    IN  ToQuadsFrom(x, 1, <<>>, (Len(x) * 5) \div 4 - 1)

(***************************************************************************)
(* Encryption, which this kind of key does not implement.                  *)
(***************************************************************************)
KeyCannotEncryptError == "KeyCannotEncryptError"
KeyCannotDecryptError == "KeyCannotDecryptError"
\* NaclSecretBoxKey{}
NoNaclSecretBoxKey == <<>>

\* EncryptToString
EncryptToString(b, plaintext, sender) ==
    [ciphertext |-> "", err |-> KeyCannotEncryptError]

\* DecryptFromString
DecryptFromString(b, ciphertext) ==
    [msg |-> <<>>, sender |-> "", err |-> KeyCannotDecryptError]

\* CanEncrypt that says yes for a bundle with a secret key
CanEncrypt_HasSecretKey(b) == HasSecretKey(b)

\* CanEncrypt
CanEncrypt(b) == FALSE

\* CanDecrypt
CanDecrypt(b) == FALSE

\* SecretSymmetricKey
SecretSymmetricKey(b, reason) ==
    [key |-> NoNaclSecretBoxKey, err |-> KeyCannotEncryptError]

(***************************************************************************)
(* Ingestion.  Errors of this path are records: a name and, for            *)
(* TooManyKeysError, the count it carries.                                 *)
(***************************************************************************)
ReadErr(name, n) == [name |-> name, n |-> n]
NoErr == ReadErr("nil", 0)
TooManyKeysError(n) == ReadErr("TooManyKeysError", n)
NoKeyError == ReadErr("NoKeyError", 0)

\* the lines of a text: what lies between its "\n"
RECURSIVE Lines(_)
Lines(t) ==
    LET idx == IndexNL(t, 1)
    IN  IF idx = 0 THEN <<t>>
        ELSE <<SubSeq(t, 1, idx - 1)>> \o Lines(SubSeq(t, idx + 1, Len(t)))

\* armor.Decode's test of a line that opens a block: it starts -----BEGIN
\* and is long enough to hold a type and the closing -----
IsArmorStart(l) == Len(l) >= 3 /\ l[1] = D5 /\ l[2] = BeginPGP
\* the type of the block a line opens: what lies between -----BEGIN PGP and
\* the closing -----
ArmorType(l) == IF l[Len(l)] = D5 THEN SubSeq(l, 3, Len(l) - 1) ELSE <<Junk>>
IsArmorEnd(l) == Len(l) >= 2 /\ l[1] = D5 /\ l[2] = EndPGP

RECURSIVE FindLine(_, _, _)
FindLine(ls, h, start) ==
    IF h > Len(ls) THEN 0
    ELSE IF (start /\ IsArmorStart(ls[h])) \/ (~start /\ IsArmorEnd(ls[h])) THEN h
    ELSE FindLine(ls, h + 1, start)

\* the entities of the body lines h..e of a block
RECURSIVE BodyEntities(_, _, _)
BodyEntities(ls, h, e) ==
    IF h > e THEN <<>>
    ELSE (IF Len(ls[h]) = 1 /\ ls[h][1].c = "DATA" THEN ls[h][1].el ELSE <<>>)
         \o BodyEntities(ls, h + 1, e)

\* openpgp.ReadArmoredKeyRing of the OpenPGP library: lines before the
\* first one that opens a block are skipped; the block must be a public or
\* private key block, so a line with anything after the closing ----- of
\* the header opens no key block; the block must be closed; its body decodes
\* to the entities
ReadArmoredKeyRing(t) ==
    LET ls == Lines(t)
        h == FindLine(ls, 1, TRUE)
        e == IF h = 0 THEN 0 ELSE FindLine(ls, h + 1, FALSE)
    IN  IF h = 0 THEN [el |-> <<>>, err |-> ReadErr("no armored data found", 0)]
        ELSE IF ArmorType(ls[h]) \notin {<<PublicBlock>>, <<PrivateBlock>>}
        THEN [el |-> <<>>, err |-> ReadErr("expected public or private key block", 0)]
        ELSE IF e = 0 THEN [el |-> <<>>, err |-> ReadErr("unexpected EOF", 0)]
        ELSE [el |-> BodyEntities(ls, h + 1, e - 1), err |-> NoErr]

\* the fingerprints of the subkeys of a bundle or entity
SubkeyFingerprints(b) == {b.Subkeys[j].PublicKey : j \in 1..Len(b.Subkeys)}

\* MergeKey: the identities, revocations and subkeys of from that to does
\* not have yet are added to it
MergeKey(to, from) ==
    [to EXCEPT !.Identities = @ \cup from.Identities,
               !.Revocations = @ \cup from.Revocations,
               !.Subkeys = @ \o SelectSeq(from.Subkeys,
                               LAMBDA sk : sk.PublicKey \notin SubkeyFingerprints(to))]

\* mergeKeysIfPossible whose error carries the length of the list it was
\* handed
RECURSIVE mergeKeysIfPossible_ListLength(_, _, _)
mergeKeysIfPossible_ListLength(b, lst, j) ==
    IF j > Len(lst) THEN [out |-> b, err |-> NoErr]
    ELSE LET tmp == NewPGPKeyBundle(lst[j])
         IN  IF SamePrimaryAs(b, tmp)
             THEN mergeKeysIfPossible_ListLength(MergeKey(b, tmp), lst, j + 1)
             ELSE [out |-> b, err |-> TooManyKeysError(Len(lst))]

\* mergeKeysIfPossible, the loop over lst from index j on
RECURSIVE mergeKeysIfPossible(_, _, _)
mergeKeysIfPossible(b, lst, j) ==
    IF j > Len(lst) THEN [out |-> b, err |-> NoErr]
    ELSE LET tmp == NewPGPKeyBundle(lst[j])
         IN  IF SamePrimaryAs(b, tmp)
             THEN mergeKeysIfPossible(MergeKey(b, tmp), lst, j + 1)
             ELSE [out |-> b, err |-> TooManyKeysError(Len(lst) + 1)]

\* finishReadOne that never keeps the armored text
finishReadOne_NoCache(lst, armored, e) ==
    IF e # NoErr THEN [key |-> NilBundle, w |-> 0, err |-> e]
    ELSE IF Len(lst) = 0 THEN [key |-> NilBundle, w |-> 0, err |-> NoKeyError]
    ELSE LET first == NewPGPKeyBundle(lst[1])
             m == IF Len(lst) > 1
                  THEN mergeKeysIfPossible(first, Tail(lst), 1)
                  ELSE [out |-> first, err |-> NoErr]
         IN  IF m.err # NoErr THEN [key |-> NilBundle, w |-> 0, err |-> m.err]
             ELSE [key |-> m.out, w |-> m.out.BadSubkeys, err |-> NoErr]

\* finishReadOne: w counts the warnings pushed
finishReadOne(lst, armored, e) ==
    IF e # NoErr THEN [key |-> NilBundle, w |-> 0, err |-> e]
    ELSE IF Len(lst) = 0 THEN [key |-> NilBundle, w |-> 0, err |-> NoKeyError]
    ELSE LET first == NewPGPKeyBundle(lst[1])
             m == IF Len(lst) > 1
                  THEN mergeKeysIfPossible(first, Tail(lst), 1)
                  ELSE [out |-> first, err |-> NoErr]
         IN  IF m.err # NoErr THEN [key |-> NilBundle, w |-> 0, err |-> m.err]
             ELSE [key |-> IF m.out.PrivateKey.nil
                           THEN [m.out EXCEPT !.ArmoredPublicKey = armored]
                           ELSE m.out,
                   w |-> m.out.BadSubkeys, err |-> NoErr]

readOneKeyFromString(originalArmor, liberal) ==
    LET cleanArmor == IF liberal THEN bug8612Prepass(cleanPGPInput(originalArmor))
                      ELSE cleanPGPInput(originalArmor)
        r == ReadArmoredKeyRing(cleanArmor)
    IN  finishReadOne(r.el, originalArmor, r.err)

ReadOneKeyFromString(originalArmor) == readOneKeyFromString(originalArmor, FALSE)

ReadOneKeyFromStringLiberal(originalArmor) == readOneKeyFromString(originalArmor, TRUE)

\* StripRevocations that keeps the subkeys with a revocation
StripRevocations_KeepRevoked(b) ==
    LET reread == IF b.ArmoredPublicKey # NoText
                  THEN ReadOneKeyFromString(b.ArmoredPublicKey).key
                  ELSE NilBundle
        strippedKey == IF reread.isNil THEN NewPGPKeyBundle(EntityOf(b)) ELSE reread
    IN  [strippedKey EXCEPT !.Revocations = {}]

\* StripRevocations
StripRevocations(b) ==
    LET reread == IF b.ArmoredPublicKey # NoText
                  THEN ReadOneKeyFromString(b.ArmoredPublicKey).key
                  ELSE NilBundle
        strippedKey == IF reread.isNil THEN NewPGPKeyBundle(EntityOf(b)) ELSE reread
    IN  [strippedKey EXCEPT
            !.Revocations = {},
            !.Subkeys = SelectSeq(@, LAMBDA sk : sk.Sig = SigTypeSubkeyBinding
                                                /\ ~sk.Revocation)]

\* FullHash
FullHash(b, v) ==
    LET r == Encode(b, v)
    IN  IF r.err # ErrNil
        THEN [k |-> r.k, ret |-> NoText, err |-> r.err, serialized |-> r.serialized]
        ELSE [k |-> r.k, ret |-> <<"sha256", TrimSpace(r.ret)>>, err |-> ErrNil,
              serialized |-> r.serialized]

\* StoreToLocalDb: put is the call of LocalDb.Put, dbErr whether it fails
StoreToLocalDb(b, v, dbErr) ==
    LET r == Encode(b, v)
    IN  IF r.err # ErrNil
        THEN [k |-> r.k, put |-> <<>>, err |-> r.err, serialized |-> r.serialized]
        ELSE [k |-> r.k, put |-> <<[key |-> GetKID(r.k), val |-> r.ret]>>,
              err |-> IF dbErr THEN "db error" ELSE ErrNil,
              serialized |-> r.serialized]

\* ExportPublicAndPrivate that serializes the public key first whatever the
\* provenance
ExportPublicAndPrivate_PublicFirst(b, failPublic, failPrivate) ==
    LET calls == IF failPublic THEN <<"public">> ELSE <<"public", "private">>
        failed == failPublic \/ failPrivate
    IN  [calls |-> calls,
         public |-> IF failed THEN <<>> ELSE <<"public", PublicOf(EntityOf(b))>>,
         private |-> IF failed THEN <<>> ELSE <<"private", EntityOf(b)>>,
         err |-> IF failed THEN "serialize error" ELSE ErrNil]

\* ExportPublicAndPrivate: failPublic and failPrivate say which of the two
\* serializations fails when it is run; calls lists the ones that were run
ExportPublicAndPrivate(b, failPublic, failPrivate) ==
    LET order == IF b.Generated THEN <<"private", "public">> ELSE <<"public", "private">>
        fails(which) == IF which = "public" THEN failPublic ELSE failPrivate
        calls == IF fails(order[1]) THEN <<order[1]>> ELSE order
        failed == fails(order[1]) \/ fails(order[2])
    IN  [calls |-> calls,
         public |-> IF failed THEN <<>> ELSE <<"public", PublicOf(EntityOf(b))>>,
         private |-> IF failed THEN <<>> ELSE <<"private", EntityOf(b)>>,
         err |-> IF failed THEN "serialize error" ELSE ErrNil]

(***************************************************************************)
(* The bundles a run starts from: an entity with a primary key and up to   *)
(* MaxSubkeys subkeys, every key with any of the private key states, read  *)
(* by finishReadOne, wrapped by NewPGPKeyBundle, or (all keys in the       *)
(* clear) by NewGeneratedPGPKeyBundle; InitGPGKey may have set a fallback. *)
(***************************************************************************)
SubkeySeqs ==
    UNION {{[j \in 1..n |-> Subkey(j, f[j])] : f \in [1..n -> PrivateKeys]} :
              n \in 0..MaxSubkeys}

Entities == {Entity("A", p, subkeys) : p \in PrivateKeys, subkeys \in SubkeySeqs}

AllClear(e) ==
    /\ e.PrivateKey = ClearKey
    /\ \A j \in 1..Len(e.Subkeys) : e.Subkeys[j].PrivateKey = ClearKey

\* the armored text an entity was read from
ArmorOf(e) == PublicArmor(Data(<<e>>, 0))

Provenances(es) ==
    LET made == {NewPGPKeyBundle(e) : e \in es}
                \cup {finishReadOne(<<e>>, ArmorOf(e), NoErr).key : e \in es}
                \cup {NewGeneratedPGPKeyBundle(e) : e \in {x \in es : AllClear(x)}}
    IN  {[b EXCEPT !.GPGFallbackKey = f] : b \in made, f \in BOOLEAN}

StartBundles == Provenances(Entities)

\* the entities whose keys are all in the same private key state
UniformEntities ==
    {e \in Entities : \A j \in 1..Len(e.Subkeys) : e.Subkeys[j].PrivateKey = e.PrivateKey}

\* no text is at hand
NoInput == [text |-> NoText]

Start(bundles) ==
    /\ k \in bundles
    /\ pc = "idle"
    /\ i = 0
    /\ pw = 0
    /\ err = ErrNil
    /\ unlocked = "nil"
    /\ hist = NoHist
    /\ out = NoOut
    /\ input = NoInput

Init == Start(StartBundles)

InitOps == Start(Provenances(UniformEntities))

(***************************************************************************)
(* The texts an ingestion starts from.  An armored text is white space or  *)
(* a line of garbage (lead), the header line of a block of some type, junk *)
(* after the header, the end of that line (eol), an empty line, the body,  *)
(* and, when the block is closed, its END line.  manual is the same text   *)
(* with the junk taken out by hand; firstLineJunk says that the first line *)
(* of the text, leading white space aside, is a header followed by junk.   *)
(***************************************************************************)
Leads == {<<>>, <<SP, NL>>, <<Junk, NL>>}
Junks == {<<>>, <<Junk>>, <<SP, Junk>>, <<Junk, D5>>}
Eols == {<<NL>>, <<SP, CR, NL>>}
BlockTypes == {PublicBlock, PrivateBlock}

ArmoredText(lead, type, junk, eol, el, v, closed) ==
    lead \o <<D5, BeginPGP, type, D5>> \o junk \o eol \o <<NL, Data(el, v), NL>>
         \o (IF closed THEN <<D5, EndPGP, type, D5>> ELSE <<>>)

Input(lead, type, junk, eol, el, v, closed) ==
    [text |-> ArmoredText(lead, type, junk, eol, el, v, closed),
     manual |-> ArmoredText(lead, type, <<>>, eol, el, v, closed),
     firstLineJunk |-> junk # <<>> /\ lead # <<Junk, NL>>]

\* the entities of the key rings read from malformed and well-formed texts:
\* public keys, private keys, a stub, a public primary key with a private
\* subkey
ReadEntities ==
    {Entity("A", NilKey, <<>>), Entity("A", NilKey, <<Subkey(1, NilKey)>>),
     Entity("A", ClearKey, <<>>), Entity("A", StubKey, <<>>),
     Entity("A", NilKey, <<Subkey(1, ClearKey)>>),
     Entity("A", EncKey(1), <<Subkey(1, EncKey(1))>>)}

\* the texts of every shape around a key ring of at most one entity
Texts ==
    {Input(lead, type, junk, eol, el, v, closed) :
        lead \in Leads, type \in BlockTypes, junk \in Junks, eol \in Eols,
        el \in {<<>>} \cup {<<e>> : e \in ReadEntities},
        v \in 1..NumSerializations, closed \in BOOLEAN}

\* the public entities of a key ring with several entities: a primary key A
\* or B and any of the subkeys 1..MaxSubkeys
MergeEntities ==
    {Entity(fp, NilKey, SelectSeq([j \in 1..MaxSubkeys |-> Subkey(j, NilKey)],
                                  LAMBDA sk : sk.PublicKey \in fps)) :
        fp \in {"A", "B"}, fps \in SUBSET (1..MaxSubkeys)}

KeyRings ==
    {el \in UNION {[1..n -> MergeEntities] : n \in 1..MaxEntities} :
        el[1].PrimaryKey = "A"}

\* the well-formed texts of the key rings
KeyRingTexts ==
    {Input(<<>>, PublicBlock, <<>>, <<NL>>, el, 1, TRUE) : el \in KeyRings}

InitRead ==
    /\ k = NilBundle
    /\ pc = "idle"
    /\ i = 0
    /\ pw = 0
    /\ err = ErrNil
    /\ unlocked = "nil"
    /\ hist = NoHist
    /\ out = NoOut
    /\ input \in Texts \cup KeyRingTexts

(***************************************************************************)
(* The bundles StripRevocations starts from: up to MaxSubkeys subkeys,     *)
(* each bound, revoked (Revocation set), or with a Sig that is not a       *)
(* subkey binding; with or without revocations of the key itself; one or   *)
(* two identities; public or with private keys in the clear; wrapped by    *)
(* NewPGPKeyBundle or read from its armored text by finishReadOne.         *)
(***************************************************************************)
SubkeyStates ==
    {[Sig |-> SigTypeSubkeyBinding, Revocation |-> FALSE],
     [Sig |-> SigTypeSubkeyBinding, Revocation |-> TRUE],
     [Sig |-> SigTypeOther, Revocation |-> FALSE]}

StripEntities ==
    {[Entity("A", priv, [j \in DOMAIN f |-> f[j] @@ Subkey(j, priv)])
         EXCEPT !.Revocations = revs, !.Identities = ids] :
        priv \in {NilKey, ClearKey}, revs \in {{}, {"rev"}},
        ids \in {{"uid"}, {"uid", "uid2"}},
        f \in UNION {[1..n -> SubkeyStates] : n \in 0..MaxSubkeys}}

StripBundles ==
    {NewPGPKeyBundle(e) : e \in StripEntities}
    \cup {finishReadOne(<<e>>, ArmorOf(e), NoErr).key : e \in StripEntities}

InitStrip == Start(StripBundles)

(***************************************************************************)
(* The fingerprints: the bytes are two of a few values with every digit,   *)
(* laid out in runs of one to four.                                        *)
(***************************************************************************)
SomeBytes == {0, 9, 10, 31, 171, 205, 239, 255}

Fingerprints ==
    {[m \in 1..PGPFingerprintLen |-> IF (m \div run) % 2 = 0 THEN b1 ELSE b2] :
        b1 \in SomeBytes, b2 \in SomeBytes, run \in 1..4}

\* a string without its spaces
NoSpaces(str) == SelectSeq(str, LAMBDA c : c # " ")

\* the strings handed to PGPFingerprintFromHex for a fingerprint: its two
\* formats, its upper case hex, its quads without the spaces, and its hex
\* cut short
FormatsOf(fp) ==
    {String(fp), ToQuads(fp), ToUpper(String(fp)), NoSpaces(ToQuads(fp)),
     SubSeq(String(fp), 1, 2 * PGPFingerprintLen - 1)}

InitFp ==
    /\ k = NilBundle
    /\ pc = "idle"
    /\ i = 0
    /\ pw = 0
    /\ err = ErrNil
    /\ unlocked = "nil"
    /\ hist = NoHist
    /\ out = NoOut
    /\ input \in {[fp |-> fp] : fp \in Fingerprints}

\* no Unlock is running: the operations are called one at a time
Quiet == pc \in {"idle", "done"}

EncodeCall ==
    /\ Quiet
    /\ ~k.isNil
    /\ \E v \in 0..NumSerializations :
          LET r == Encode(k, v)
          IN  /\ k' = r.k
              /\ out' = [op |-> "Encode", ret |-> r.ret, err |-> r.err,
                         serialized |-> r.serialized]
    /\ UNCHANGED <<pc, i, pw, err, unlocked, hist, input>>

FullHashCall ==
    /\ Quiet
    /\ \E v \in 0..NumSerializations :
          LET r == FullHash(k, v)
          IN  /\ k' = r.k
              /\ out' = [op |-> "FullHash", ret |-> r.ret, err |-> r.err,
                         serialized |-> r.serialized]
    /\ UNCHANGED <<pc, i, pw, err, unlocked, hist, input>>

StoreToLocalDbCall ==
    /\ Quiet
    /\ \E v \in 0..NumSerializations, dbErr \in BOOLEAN :
          LET r == StoreToLocalDb(k, v, dbErr)
          IN  /\ k' = r.k
              /\ out' = [op |-> "StoreToLocalDb", put |-> r.put, err |-> r.err,
                         serialized |-> r.serialized]
    /\ UNCHANGED <<pc, i, pw, err, unlocked, hist, input>>

StripRevocationsCall ==
    /\ Quiet
    /\ out' = [op |-> "StripRevocations", ret |-> StripRevocations(k)]
    /\ UNCHANGED <<k, pc, i, pw, err, unlocked, hist, input>>

ExportPublicAndPrivateCall ==
    /\ Quiet
    /\ \E failPublic \in BOOLEAN, failPrivate \in BOOLEAN :
          LET r == ExportPublicAndPrivate(k, failPublic, failPrivate)
          IN  out' = [op |-> "ExportPublicAndPrivate", calls |-> r.calls,
                      public |-> r.public, private |-> r.private, err |-> r.err,
                      fails |-> [public |-> failPublic, private |-> failPrivate]]
    /\ UNCHANGED <<k, pc, i, pw, err, unlocked, hist, input>>

CanSignCall ==
    /\ Quiet
    /\ out' = [op |-> "CanSign", ret |-> CanSign(k)]
    /\ UNCHANGED <<k, pc, i, pw, err, unlocked, hist, input>>

CheckSecretKeyCall ==
    /\ Quiet
    /\ out' = [op |-> "CheckSecretKey", err |-> CheckSecretKey(k)]
    /\ UNCHANGED <<k, pc, i, pw, err, unlocked, hist, input>>

VerifyStringAndExtractCall ==
    /\ Quiet
    /\ \E sig \in SigStrings :
          LET r == VerifyStringAndExtract(k, sig)
          IN  out' = [op |-> "VerifyStringAndExtract", sig |-> sig, msg |-> r.msg,
                      res |-> r.res, err |-> r.err]
    /\ UNCHANGED <<k, pc, i, pw, err, unlocked, hist, input>>

VerifyStringCall ==
    /\ Quiet
    /\ \E sig \in SigStrings, msg \in Payloads :
          LET r == VerifyString(k, sig, msg)
          IN  out' = [op |-> "VerifyString", sig |-> sig, m |-> msg,
                      res |-> r.res, err |-> r.err]
    /\ UNCHANGED <<k, pc, i, pw, err, unlocked, hist, input>>

EncryptToStringCall ==
    /\ Quiet
    /\ \E plaintext \in Payloads, sender \in {"nil", "self"} :
          LET r == EncryptToString(k, plaintext, sender)
          IN  out' = [op |-> "EncryptToString", ciphertext |-> r.ciphertext,
                      err |-> r.err]
    /\ UNCHANGED <<k, pc, i, pw, err, unlocked, hist, input>>

DecryptFromStringCall ==
    /\ Quiet
    /\ \E ciphertext \in {"", "ciphertext"} :
          LET r == DecryptFromString(k, ciphertext)
          IN  out' = [op |-> "DecryptFromString", msg |-> r.msg, sender |-> r.sender,
                      err |-> r.err]
    /\ UNCHANGED <<k, pc, i, pw, err, unlocked, hist, input>>

CanEncryptCall ==
    /\ Quiet
    /\ out' = [op |-> "CanEncrypt", ret |-> CanEncrypt(k)]
    /\ UNCHANGED <<k, pc, i, pw, err, unlocked, hist, input>>

CanDecryptCall ==
    /\ Quiet
    /\ out' = [op |-> "CanDecrypt", ret |-> CanDecrypt(k)]
    /\ UNCHANGED <<k, pc, i, pw, err, unlocked, hist, input>>

SecretSymmetricKeyCall ==
    /\ Quiet
    /\ \E reason \in {"", "reason"} :
          LET r == SecretSymmetricKey(k, reason)
          IN  out' = [op |-> "SecretSymmetricKey", key |-> r.key, err |-> r.err]
    /\ UNCHANGED <<k, pc, i, pw, err, unlocked, hist, input>>

PGPFingerprintFromHexCall ==
    /\ Quiet
    /\ \E str \in FormatsOf(input.fp) :
          LET r == PGPFingerprintFromHex(str)
          IN  out' = [op |-> "PGPFingerprintFromHex", s |-> str, fp |-> r.fp,
                      err |-> r.err]
    /\ UNCHANGED <<k, pc, i, pw, err, unlocked, hist, input>>

\* an ingestion of the text at hand; prev is the bundle held before, the
\* result of the ingestion before this one
ReadOneKeyFromStringCall ==
    /\ Quiet
    /\ LET r == ReadOneKeyFromString(input.text)
       IN  /\ k' = r.key
           /\ out' = [op |-> "ReadOneKeyFromString", err |-> r.err, w |-> r.w,
                      prev |-> k]
    /\ UNCHANGED <<pc, i, pw, err, unlocked, hist, input>>

ReadOneKeyFromStringLiberalCall ==
    /\ Quiet
    /\ LET r == ReadOneKeyFromStringLiberal(input.text)
       IN  /\ k' = r.key
           /\ out' = [op |-> "ReadOneKeyFromStringLiberal", err |-> r.err,
                      w |-> r.w, prev |-> k]
    /\ UNCHANGED <<pc, i, pw, err, unlocked, hist, input>>

(***************************************************************************)
(* Spec: Unlock and the secret-key capability checks, from every start     *)
(* bundle.  SpecOps: every operation of the bundle, from the bundles whose *)
(* keys are all in the same private key state.                             *)
(***************************************************************************)
Next ==
    \/ UnlockCall
    \/ RunPrompt
    \/ RunUnlock
    \/ CanSignCall
    \/ CheckSecretKeyCall

Spec == Init /\ [][Next]_vars

NextOps ==
    \/ UnlockCall
    \/ RunPrompt
    \/ RunUnlock
    \/ CanSignCall
    \/ CheckSecretKeyCall
    \/ EncodeCall
    \/ FullHashCall
    \/ StoreToLocalDbCall
    \/ StripRevocationsCall
    \/ ExportPublicAndPrivateCall

SpecOps == InitOps /\ [][NextOps]_vars

\* SpecFp: the parsing of the formats of a fingerprint
NextFp == PGPFingerprintFromHexCall

SpecFp == InitFp /\ [][NextFp]_vars

\* SpecCaps: the encryption operations of the GenericKey, from every start
\* bundle
NextCaps ==
    \/ EncryptToStringCall
    \/ DecryptFromStringCall
    \/ CanEncryptCall
    \/ CanDecryptCall
    \/ SecretSymmetricKeyCall

SpecCaps == Init /\ [][NextCaps]_vars

\* SpecVerify: the verification of signature strings under a public, a
\* private and a generated bundle of the key A and a public bundle of the
\* key B
VerifyBundles ==
    Provenances({Entity("A", NilKey, <<>>), Entity("A", ClearKey, <<>>),
                 Entity("B", NilKey, <<>>)})

InitVerify == Start(VerifyBundles)

NextVerify ==
    \/ VerifyStringAndExtractCall
    \/ VerifyStringCall

SpecVerify == InitVerify /\ [][NextVerify]_vars

\* SpecStrip: StripRevocations, before and after Encode has set the cached
\* text
NextStrip ==
    \/ StripRevocationsCall
    \/ EncodeCall

SpecStrip == InitStrip /\ [][NextStrip]_vars

\* SpecRead: the ingestion of a text, in either mode and again, and the
\* encoding of the bundle it gave
NextRead ==
    \/ ReadOneKeyFromStringCall
    \/ ReadOneKeyFromStringLiberalCall
    \/ EncodeCall

SpecRead == InitRead /\ [][NextRead]_vars

(***************************************************************************)
(* The claims about Unlock and CanSign, checked under Spec.                *)
(***************************************************************************)
\* Unlock has returned success
Succeeded == pc = "done" /\ err = ErrNil
\* the unlocker has run at least once: Unlock found encrypted key material
AttemptMade == hist.tried # <<>>

\* C1: on a bundle with encrypted private key material, a prompt that hands
\* back wrong passphrases N < 5 times and then the correct one makes Unlock
\* succeed (the run is still prompting after fewer than 5 wrong attempts, and
\* the correct passphrase ends it in success); 5 wrong attempts in a row make
\* it fail; the prompt is never invoked more than 5 times.
C1_RetryBudget ==
    /\ hist.prompts <= UnlockTries
    /\ hist.wrongs >= UnlockTries => (pc = "done" /\ err # ErrNil)
    /\ (hist.last = PassphraseError /\ hist.wrongs < UnlockTries /\ err # ErrCanceled)
          => pc \in {"prompt", "unlock"}
    /\ (AttemptMade /\ hist.correct /\ hist.cause # ErrOther) => Succeeded

\* C1 where every key of the bundle has a private key structure
C1_RetryBudgetAllPresent == (pc # "idle" /\ AllPresent(hist.k0)) => C1_RetryBudget

\* C1: the fifth wrong attempt has ended the run in failure
C1_Exhausted == hist.wrongs = UnlockTries /\ pc = "done" /\ err = ErrTooManyFailures

\* C2: when no private key of the bundle is encrypted as Unlock is called, it
\* returns success, the prompt is never invoked and the bundle is unchanged.
C2_ShortCircuit ==
    (pc # "idle" /\ ~AnyEncrypted(hist.k0))
        => (Succeeded /\ hist.prompts = 0 /\ ~AttemptMade /\ k = hist.k0)

\* C2 where every key of the bundle has a private key structure
C2_ShortCircuitAllPresent == (pc # "idle" /\ AllPresent(hist.k0)) => C2_ShortCircuit

\* C3: whenever Unlock has returned success no private key of the bundle,
\* primary or subkey, has Encrypted set, and when the unlocker ran, the key it
\* handed back is the bundle itself.
C3_SuccessIsUnlocked ==
    Succeeded => (~AnyEncrypted(k) /\ (AttemptMade => unlocked = "k"))

\* C3: Unlock succeeded on a bundle with subkeys after a wrong attempt
C3_Witness ==
    /\ Succeeded /\ AttemptMade /\ hist.wrongs > 0
    /\ Len(k.Subkeys) >= 1 /\ AnyEncrypted(hist.k0)

\* C4: a checksum failure of the library comes back as PassphraseError and the
\* run prompts again (while tries are left); any other error of the library
\* comes back unchanged and ends the run at once, with no prompt after it; the
\* keys tried in the attempt are the primary and the subkeys up to the failing
\* one, and none after it.
C4_ErrorNormalized ==
    /\ hist.cause = ErrChecksum =>
          /\ hist.last = PassphraseError
          /\ IF hist.wrongs < UnlockTries
             THEN pc \in {"prompt", "unlock"} \/ (pc = "done" /\ err = ErrCanceled)
             ELSE pc = "done" /\ err = ErrTooManyFailures
    /\ hist.cause = ErrOther =>
          /\ hist.last = ErrOther
          /\ pc = "done" /\ err = ErrOther
          /\ hist.prompts = hist.wrongs + 1
    /\ hist.cause \in {ErrChecksum, ErrOther} =>
          hist.tried = [n \in 1..(hist.at + 1) |-> n - 1]

\* C4: the first subkey failed the checksum, the second was not tried, and
\* the run is prompting again
C4_Witness ==
    /\ hist.cause = ErrChecksum /\ hist.at = 1 /\ pc = "prompt"
    /\ Len(k.Subkeys) >= 2 /\ k.Subkeys[2].PrivateKey.Encrypted

\* C5, as claimed: without a fallback signer CanSign is false as long as some
\* private key is encrypted and Unlock has not succeeded, and true once Unlock
\* has succeeded.
C5_LockedCannotSign ==
    ~k.GPGFallbackKey =>
        /\ (AnyEncrypted(k) /\ ~Succeeded) => ~CanSign(k)
        /\ (Succeeded /\ AttemptMade) => CanSign(k)

\* C5, amended: without a fallback signer CanSign is false as long as the
\* primary private key is encrypted, whatever the subkeys are, and true once
\* Unlock has succeeded; a call of CanSign returns just that.
C5_PrimaryLockedCannotSign ==
    /\ ~k.GPGFallbackKey =>
          /\ k.PrivateKey.Encrypted => ~CanSign(k)
          /\ (Succeeded /\ AttemptMade) => CanSign(k)
    /\ out.op = "CanSign" => out.ret = CanSign(k)

\* C5: CanSign was called after Unlock had decrypted the bundle and said yes
C5_Witness ==
    /\ Succeeded /\ AttemptMade /\ ~k.GPGFallbackKey
    /\ hist.k0.PrivateKey.Encrypted
    /\ out.op = "CanSign" /\ out.ret

\* usable unencrypted private material: the private key structure is there,
\* is not encrypted, and the primary or some subkey holds private key bytes
Usable(b) ==
    /\ ~b.PrivateKey.nil
    /\ ~b.PrivateKey.Encrypted
    /\ \E idx \in 0..Len(b.Subkeys) : ~KeyAt(b, idx).nil /\ KeyAt(b, idx).PrivateKey

\* C6: CanSign returns true exactly when a fallback signer is configured or
\* usable unencrypted private material exists, the condition CheckSecretKey
\* enforces.
C6_CanSignIffUsable ==
    out.op = "CanSign" =>
        /\ out.ret <=> (k.GPGFallbackKey \/ Usable(k))
        /\ out.ret <=> (CheckSecretKey(k) = ErrNil)

(***************************************************************************)
(* The claim about the cached armored public key, checked under SpecOps.   *)
(***************************************************************************)
\* C9: once ArmoredPublicKey is set, no step of Encode, FullHash,
\* StoreToLocalDb, StripRevocations, Unlock or ExportPublicAndPrivate changes
\* it, and an Encode (alone or inside FullHash and StoreToLocalDb) that starts
\* with it set returns it and serializes nothing.
C9_CacheWriteOnce ==
    [][k.ArmoredPublicKey # NoText =>
          /\ k'.ArmoredPublicKey = k.ArmoredPublicKey
          /\ out'.op \in {"Encode", "FullHash", "StoreToLocalDb"} => ~out'.serialized
          /\ out'.op = "Encode" => (out'.err = ErrNil /\ out'.ret = k.ArmoredPublicKey)
          /\ out'.op = "StoreToLocalDb" => out'.put[1].val = k.ArmoredPublicKey]_vars

\* C9: the cache was set when Unlock was called, Unlock decrypted the
\* bundle, and a later Encode returned the cached text without serializing
C9_Witness ==
    /\ Succeeded /\ AttemptMade
    /\ hist.k0.ArmoredPublicKey # NoText
    /\ out.op = "Encode" /\ ~out.serialized /\ out.ret = hist.k0.ArmoredPublicKey

(***************************************************************************)
(* The claims about ingestion, checked under SpecRead.                     *)
(***************************************************************************)
ReadOps == {"ReadOneKeyFromString", "ReadOneKeyFromStringLiberal"}

\* what the decoder made of the text in the ingestion that has just run
Decoded ==
    ReadArmoredKeyRing(IF out.op = "ReadOneKeyFromStringLiberal"
                       THEN bug8612Prepass(cleanPGPInput(input.text))
                       ELSE cleanPGPInput(input.text))

\* every entity of el has the primary key of the first
SamePrimary(el) == \A j \in 1..Len(el) : el[j].PrimaryKey = el[1].PrimaryKey

\* the subkey fingerprints of all the entities of el
AllSubkeyFingerprints(el) == UNION {SubkeyFingerprints(el[j]) : j \in 1..Len(el)}

\* C7: when the text decodes to one entity or more, and every further entity
\* has the primary key fingerprint of the first, the ingestion succeeds and
\* the bundle has that primary key and the union of the subkeys of all the
\* entities; when some further entity has another primary key fingerprint,
\* the ingestion fails with TooManyKeysError carrying the number of decoded
\* entities, and returns no bundle.
C7_MergeOrReject ==
    (out.op \in ReadOps /\ Decoded.err = NoErr /\ Len(Decoded.el) >= 1) =>
        IF SamePrimary(Decoded.el)
        THEN /\ out.err = NoErr
             /\ ~k.isNil
             /\ k.PrimaryKey = Decoded.el[1].PrimaryKey
             /\ SubkeyFingerprints(k) = AllSubkeyFingerprints(Decoded.el)
        ELSE /\ out.err = TooManyKeysError(Len(Decoded.el))
             /\ k.isNil

\* C7: of three decoded entities the second, which has a subkey the first
\* has not, was folded into the first before the third, with another primary
\* key, made the ingestion fail with the count 3
C7_Witness ==
    /\ out.op \in ReadOps /\ Decoded.err = NoErr /\ Len(Decoded.el) = 3
    /\ Decoded.el[2].PrimaryKey = Decoded.el[1].PrimaryKey
    /\ ~(SubkeyFingerprints(Decoded.el[2]) \subseteq SubkeyFingerprints(Decoded.el[1]))
    /\ Decoded.el[3].PrimaryKey # Decoded.el[1].PrimaryKey
    /\ out.err = TooManyKeysError(3) /\ k.isNil

\* C7: two entities with the same primary key and different subkeys were
\* merged into one bundle
C7_Merged ==
    /\ out.op \in ReadOps /\ ~k.isNil /\ Len(Decoded.el) = 2
    /\ Len(Decoded.el[1].Subkeys) = 1 /\ Len(k.Subkeys) = 2

\* C8: Encode of a bundle an ingestion returned without a private key (the
\* primary key has none, and so whenever no key of the bundle has one)
\* returns the text that was ingested, in either mode, and serializes
\* nothing; and a second ingestion of the text gives a bundle with the KID of
\* the bundle the ingestion before it gave.
C8_EncodeIsInput ==
    /\ (out.op = "Encode" /\ ~HasSecretKey(k)) =>
          (out.err = ErrNil /\ out.ret = input.text /\ ~out.serialized)
    /\ (out.op \in ReadOps /\ ~k.isNil /\ ~out.prev.isNil) =>
          GetKID(k) = GetKID(out.prev)

\* no key of the bundle has a private key
NoPrivateKey(b) ==
    /\ b.PrivateKey.nil
    /\ \A j \in 1..Len(b.Subkeys) : b.Subkeys[j].PrivateKey.nil

\* C8: Encode was called on a public bundle with a subkey, ingested from a
\* text that no serialization of the bundle equals
C8_Witness ==
    /\ out.op = "Encode" /\ NoPrivateKey(k) /\ Len(k.Subkeys) >= 1
    /\ \A v \in 1..NumSerializations : input.text # EncodeToStream(k, v)

\* C8: the text was ingested in one mode and then in the other, and both
\* ingestions gave a bundle
C8_Twice ==
    /\ out.op = "ReadOneKeyFromStringLiberal" /\ ~k.isNil /\ ~out.prev.isNil
    /\ NoPrivateKey(k)

\* a line that is the header of a block and nothing else
IsHeader(l) == Len(l) = 4 /\ l[1] = D5 /\ l[2] = BeginPGP /\ l[4] = D5

\* C10: a text whose first line is a header followed by junk fails in
\* ReadOneKeyFromString; in ReadOneKeyFromStringLiberal it gives what
\* ReadOneKeyFromString gives of the text with the junk taken out by hand:
\* success with the same entity when that text is a key, the same error when
\* it is not; the pre-pass makes the first line of such a text the header
\* alone and leaves every other line as it is; and it leaves a text without
\* junk on its first line as it is, so that both modes decode the same text.
C10_LiberalRepairsHeader ==
    LET clean == cleanPGPInput(input.text)
        fixed == bug8612Prepass(clean)
        byHand == ReadOneKeyFromString(input.manual)
    IN  /\ input.firstLineJunk =>
              /\ IsHeader(Lines(fixed)[1])
              /\ Lines(fixed)[1] = Lines(cleanPGPInput(input.manual))[1]
              /\ Tail(Lines(fixed)) = Tail(Lines(clean))
              /\ out.op = "ReadOneKeyFromString" => (out.err # NoErr /\ k.isNil)
              /\ out.op = "ReadOneKeyFromStringLiberal" =>
                    /\ out.err = byHand.err
                    /\ k.isNil = byHand.key.isNil
                    /\ ~k.isNil => EntityOf(k) = EntityOf(byHand.key)
        /\ ~input.firstLineJunk =>
              /\ fixed = clean
              /\ out.op = "ReadOneKeyFromStringLiberal" =>
                    /\ out.err = ReadOneKeyFromString(input.text).err
                    /\ k = ReadOneKeyFromString(input.text).key

\* C10: the liberal ingestion of a text with junk after its header, which
\* the strict ingestion before it had refused, gave a bundle with a subkey
C10_Witness ==
    /\ input.firstLineJunk
    /\ out.op = "ReadOneKeyFromStringLiberal" /\ out.err = NoErr
    /\ ~k.isNil /\ Len(k.Subkeys) >= 1
    /\ out.prev.isNil

(***************************************************************************)
(* The claim about StripRevocations, checked under SpecStrip.              *)
(***************************************************************************)
\* the public part of the subkeys of a bundle, in their order
PublicSubkeys(b) ==
    [j \in 1..Len(b.Subkeys) |-> [b.Subkeys[j] EXCEPT !.PrivateKey = NilKey]]

\* the binding of a subkey was revoked: it carries a revocation, or the
\* signature in the place of its binding is not a subkey binding
Revoked(sk) == sk.Revocation \/ sk.Sig # SigTypeSubkeyBinding

\* C11: the bundle StripRevocations returns has no revocations and no
\* revoked subkey; its subkeys are the subkeys of the source that are not
\* revoked, in the order of the source; its identities are those of the
\* source.
C11_StripKeepsTheRest ==
    out.op = "StripRevocations" =>
        /\ out.ret.Revocations = {}
        /\ \A j \in 1..Len(out.ret.Subkeys) : ~Revoked(out.ret.Subkeys[j])
        /\ PublicSubkeys(out.ret)
               = SelectSeq(PublicSubkeys(k), LAMBDA sk : ~Revoked(sk))
        /\ out.ret.Identities = k.Identities
        /\ out.ret.PrimaryKey = k.PrimaryKey

\* C11: a bundle with revocations, a revoked first subkey and a bound second
\* subkey was stripped by way of its cached text
C11_Witness ==
    /\ out.op = "StripRevocations"
    /\ k.ArmoredPublicKey # NoText /\ k.Revocations # {}
    /\ Len(k.Subkeys) = 2 /\ k.Subkeys[1].Revocation /\ ~Revoked(k.Subkeys[2])
    /\ Len(out.ret.Subkeys) = 1

(***************************************************************************)
(* The claim about CheckSecretKey, checked under Spec.                     *)
(***************************************************************************)
\* the primary key or some subkey holds a private key value
HoldsPrivateBytes(b) ==
    \E idx \in 0..Len(b.Subkeys) : ~KeyAt(b, idx).nil /\ KeyAt(b, idx).PrivateKey

\* C12: a call of CheckSecretKey returns NoSecretKeyError when the primary
\* key has no private key structure, BadKeyError when it has one that is
\* encrypted, BadKeyError when it is not encrypted but no key of the bundle
\* holds a private key value and there is no fallback signer, and no error
\* in every other case; the call leaves the bundle as it was.
C12_CheckSecretKeyCases ==
    [][out'.op = "CheckSecretKey" =>
          /\ k' = k
          /\ out'.err =
                IF k.PrivateKey.nil THEN "NoSecretKeyError"
                ELSE IF k.PrivateKey.Encrypted
                THEN "BadKeyError: PGP key material should be unencrypted"
                ELSE IF ~HoldsPrivateBytes(k) /\ ~k.GPGFallbackKey
                THEN "BadKeyError: no private key material or GPGKey"
                ELSE ErrNil]_vars

\* C12: CheckSecretKey passed a bundle with a stub primary key and no
\* fallback signer because its second subkey, after one without a private
\* key, holds a private key value
C12_Witness ==
    /\ out.op = "CheckSecretKey" /\ out.err = ErrNil
    /\ k.PrivateKey = StubKey /\ ~k.GPGFallbackKey
    /\ Len(k.Subkeys) = 2 /\ k.Subkeys[1].PrivateKey.nil
    /\ k.Subkeys[2].PrivateKey = ClearKey

(***************************************************************************)
(* The claim about signature verification, checked under SpecVerify.       *)
(***************************************************************************)
\* the signature string verifies under the bundle
Verifies(sig, b) == sig.parses /\ sig.intact /\ sig.signer = b.PrimaryKey

\* C13: of a signature string that verifies under the bundle and carries the
\* payload p, VerifyStringAndExtract returns p, and VerifyString with m
\* succeeds exactly when m = p, then with the result VerifyStringAndExtract
\* gives; with another m it fails with BadSigError "wrong payload" and the
\* empty result; of a signature string that does not verify, both return the
\* error of the failing step and nothing else.
C13_VerifyRecoversPayload ==
    /\ out.op = "VerifyStringAndExtract" =>
          IF Verifies(out.sig, k)
          THEN out.err = ErrNil /\ out.msg = out.sig.LiteralData
          ELSE /\ out.err = (IF out.sig.parses THEN Verify(out.sig, k)
                                               ELSE PGPOpenSig(out.sig))
               /\ out.err # ErrNil
               /\ out.msg = <<>> /\ out.res = NoSigVerifyResult
    /\ out.op = "VerifyString" =>
          IF Verifies(out.sig, k)
          THEN /\ out.err = ErrNil <=> out.m = out.sig.LiteralData
               /\ out.m = out.sig.LiteralData =>
                     out.res = VerifyStringAndExtract(k, out.sig).res
               /\ out.m # out.sig.LiteralData =>
                     /\ out.err = "BadSigError: wrong payload"
                     /\ out.res = NoSigVerifyResult
          ELSE /\ out.err = VerifyStringAndExtract(k, out.sig).err
               /\ out.err \notin {ErrNil, "BadSigError: wrong payload"}
               /\ out.res = NoSigVerifyResult

\* C13: VerifyString refused a signature that verifies because the expected
\* payload, of the length of the signed one, is another
C13_Witness ==
    /\ out.op = "VerifyString" /\ Verifies(out.sig, k)
    /\ Len(out.m) = Len(out.sig.LiteralData) /\ out.m # out.sig.LiteralData
    /\ out.err = "BadSigError: wrong payload"

(***************************************************************************)
(* The claim about the encryption operations, checked under SpecCaps.      *)
(***************************************************************************)
\* C14: on every bundle and with every input, EncryptToString returns
\* KeyCannotEncryptError and no ciphertext, DecryptFromString returns
\* KeyCannotDecryptError, no message and no sender, SecretSymmetricKey
\* returns KeyCannotEncryptError and the empty key, CanEncrypt and CanDecrypt
\* return false, and the call leaves the bundle as it was.
C14_NoEncryption ==
    [][/\ out'.op \in {"EncryptToString", "DecryptFromString", "SecretSymmetricKey",
                       "CanEncrypt", "CanDecrypt"} => k' = k
       /\ out'.op = "EncryptToString" =>
             (out'.err = KeyCannotEncryptError /\ out'.ciphertext = "")
       /\ out'.op = "DecryptFromString" =>
             /\ out'.err = KeyCannotDecryptError
             /\ out'.msg = <<>> /\ out'.sender = ""
       /\ out'.op = "SecretSymmetricKey" =>
             (out'.err = KeyCannotEncryptError /\ out'.key = NoNaclSecretBoxKey)
       /\ out'.op \in {"CanEncrypt", "CanDecrypt"} => ~out'.ret]_vars

\* C14: CanEncrypt was asked of a bundle whose keys, primary and subkeys,
\* all hold private key material in the clear
C14_Witness ==
    /\ out.op = "CanEncrypt" /\ ~out.ret
    /\ k.PrivateKey = ClearKey /\ Len(k.Subkeys) = MaxSubkeys
    /\ \A j \in 1..Len(k.Subkeys) : k.Subkeys[j].PrivateKey = ClearKey

(***************************************************************************)
(* The claim about fingerprints, checked under SpecFp.                     *)
(***************************************************************************)
\* C15, as claimed: PGPFingerprintFromHex of fp.String() and of fp.ToQuads()
\* gives back fp.
C15_RoundTrip ==
    (out.op = "PGPFingerprintFromHex" /\ out.s \in {String(input.fp), ToQuads(input.fp)})
        => (out.err = <<>> /\ out.fp = input.fp)

\* C15, amended: PGPFingerprintFromHex of fp.String() gives back fp; of
\* fp.ToQuads(), which is 49 characters long, it fails with the wrong-length
\* error and gives no fingerprint; of fp.ToQuads() without its spaces it
\* gives back fp.
C15_HexRoundTrip ==
    out.op = "PGPFingerprintFromHex" =>
        /\ out.s = String(input.fp) => (out.err = <<>> /\ out.fp = input.fp)
        /\ out.s = ToQuads(input.fp) =>
              /\ Len(out.s) = 49
              /\ out.err = <<"Bad fingerprint; wrong length", 49>>
              /\ out.fp = <<>>
        /\ out.s = NoSpaces(ToQuads(input.fp)) => (out.err = <<>> /\ out.fp = input.fp)

\* C15: the hex of a fingerprint with digits above 9 and below was parsed
C15_Witness ==
    /\ out.op = "PGPFingerprintFromHex" /\ out.s = String(input.fp)
    /\ out.fp = input.fp /\ input.fp[1] = 171 /\ input.fp[2] = 9

(***************************************************************************)
(* The claim about ExportPublicAndPrivate, checked under SpecOps.          *)
(***************************************************************************)
\* C16: ExportPublicAndPrivate of a bundle that is not Generated serializes
\* the public key first and the private key after it, of a Generated bundle
\* the private key first and the public key after it; when the first
\* serialization fails the second is not run; when either fails the result
\* is (nil, nil, error), and when none fails both keys and no error.
C16_ExportOrder ==
    out.op = "ExportPublicAndPrivate" =>
        LET first == IF k.Generated THEN "private" ELSE "public"
            second == IF k.Generated THEN "public" ELSE "private"
        IN  /\ out.calls[1] = first
            /\ IF out.fails[first] THEN out.calls = <<first>>
                                    ELSE out.calls = <<first, second>>
            /\ IF out.fails[first] \/ out.fails[second]
               THEN out.err # ErrNil /\ out.public = <<>> /\ out.private = <<>>
               ELSE out.err = ErrNil /\ out.public # <<>> /\ out.private # <<>>

\* C16: on a Generated bundle the private serialization ran first and
\* failed, and the public serialization, which would have succeeded, was not
\* run
C16_Witness ==
    /\ out.op = "ExportPublicAndPrivate" /\ k.Generated
    /\ out.fails.private /\ ~out.fails.public
    /\ out.calls = <<"private">> /\ out.err # ErrNil

(***************************************************************************)
(* The claims about the keys of a bundle during Unlock, checked under      *)
(* Spec.                                                                   *)
(***************************************************************************)
\* C17: no step gives a key that is not encrypted another private key, so
\* that a decrypted key stays decrypted and an attempt passes over it; the
\* key an attempt fails on was encrypted; after a failed attempt the keys
\* before the failing one, primary first and subkeys in order, are not
\* encrypted, and the failing key and the keys after it are as they were
\* before the attempt.
C17_UnlockMonotone ==
    [][/\ Len(k'.Subkeys) = Len(k.Subkeys)
       /\ \A idx \in 0..Len(k.Subkeys) :
             ~KeyAt(k, idx).Encrypted => KeyAt(k', idx) = KeyAt(k, idx)
       /\ (pc = "unlock" /\ hist'.cause \in {ErrChecksum, ErrOther}) =>
             /\ KeyAt(k, hist'.at).Encrypted
             /\ \A idx \in 0..Len(k.Subkeys) :
                   IF idx < hist'.at THEN ~KeyAt(k', idx).Encrypted
                                     ELSE KeyAt(k', idx) = KeyAt(k, idx)]_vars

\* C17: an attempt decrypted the primary key and failed on the first subkey,
\* which is under another passphrase, and a later attempt with that
\* passphrase made Unlock succeed
C17_Witness ==
    /\ Succeeded /\ hist.wrongs >= 1 /\ Len(k.Subkeys) >= 1
    /\ hist.k0.PrivateKey.Encrypted /\ hist.k0.Subkeys[1].PrivateKey.Encrypted
    /\ hist.k0.PrivateKey.pass = pw - 1
    /\ hist.k0.Subkeys[1].PrivateKey.pass = pw
    /\ hist.prompts = 2

\* C18: Unlock never ends in a nil dereference, whatever the bundle, and a
\* bundle with an absent private key and no encrypted key is not prompted
\* for: the absent key counts as not encrypted and Unlock returns success.
C18_NoNilDereference ==
    /\ pc # "panic"
    /\ (pc # "idle" /\ ~AllPresent(hist.k0) /\ ~AnyEncrypted(hist.k0))
          => (Succeeded /\ hist.prompts = 0)

====
